---- MODULE Spec2Model ----
(***************************************************************************)
(* parseTransaction (src/controllers/parseTransaction.ts): the sequential  *)
(* scan over the logs of one transaction receipt, the per-log routing      *)
(* (currency detection, token-movement extraction, sale-event decode) and  *)
(* the finalization of the summary record tx.                              *)
(*                                                                         *)
(* Amounts are integers.  TLC has 32-bit integers, so the currencies of    *)
(* the model carry few decimals and a price (a float in the program) is    *)
(* held in units of 10^-MaxDecimals.                                       *)
(***************************************************************************)
EXTENDS Integers, Sequences, FiniteSets, TLC

\* ------------------------------------------------------------------ bounds
\* Longest log list of a receipt.
MaxLogs == 3

\* -------------------------------------------------------------- registries
\* Largest decimals count of a currency of the model; prices are held in
\* units of 10^-MaxDecimals.
MaxDecimals == 2

\* logDecoder of a market descriptor that has none.
undefined == {"<undefined>"}

\* config/markets.js: contract address -> market descriptor.  logDecoder is
\* the set of field names of the decode schema.
markets ==
    [a \in {"looksrare", "x2y2", "seaport", "nfttrader", "hybrid", "gem"} |->
        CASE a = "looksrare" -> [name |-> "LooksRare", logDecoder |-> {"price"},
                                 isSwapMarket |-> FALSE]
          [] a = "x2y2"      -> [name |-> "X2Y2", logDecoder |-> {"amount"},
                                 isSwapMarket |-> FALSE]
          [] a = "seaport"   -> [name |-> "Seaport",
                                 logDecoder |-> {"offer", "consideration"},
                                 isSwapMarket |-> FALSE]
          [] a = "nfttrader" -> [name |-> "NFT Trader", logDecoder |-> {"_swapId"},
                                 isSwapMarket |-> TRUE]
          [] a = "hybrid"    -> [name |-> "Hybrid", logDecoder |-> {"offer", "_swapId"},
                                 isSwapMarket |-> FALSE]
          [] a = "gem"       -> [name |-> "Gem", logDecoder |-> undefined,
                                 isSwapMarket |-> FALSE]]

\* config/currencies.js: contract address -> currency descriptor.
currencies ==
    [a \in {"weth", "usdc"} |->
        IF a = "weth" THEN [name |-> "WETH", decimals |-> 2]
                      ELSE [name |-> "USDC", decimals |-> 1]]

\* The currency of a summary record before any log is seen.
defaultCurrency == [name |-> "ETH", decimals |-> 2]

\* config/logEventTypes.js: the sale event signatures.
saleEventTypes == {"Sale"}

\* The transfer event signatures the token-movement extractor recognises.
transferEventTypes == {"Transfer721", "Transfer1155"}

\* The monitored collection (parameter contractAddress).
contractAddress == "nft"

\* The market descriptor of lodash's _.get(markets, logAddress) for an
\* address that is no key of the registry.
noMarket == [name |-> "<undefined>", logDecoder |-> undefined, isSwapMarket |-> FALSE]

\* String.prototype.toLowerCase on the addresses of the model: the
\* checksum-cased spellings map to the registry's lower-case keys.
toLowerCase(s) ==
    CASE s = "LooksRare" -> "looksrare"
      [] s = "NFT"       -> "nft"
      [] OTHER           -> s

\* `a in markets`, `a in currencies`.
inMarkets(a) == a \in DOMAIN markets
inCurrencies(a) == a \in DOMAIN currencies

\* _.get(markets, logAddress)
getMarket(a) == IF inMarkets(a) THEN markets[a] ELSE noMarket

\* ------------------------------------------------------------------ inputs
\* A log entry: address, first topic, and its data: value is the number the
\* data carries (raw price, token id or amount), resolvable says whether the
\* listing / swap decoder finds the monitored token in it, wellFormed whether
\* the data has the byte layout of the emitting market's schema.
mkLog(a, t, v, r, w) ==
    [address |-> a, topic |-> t, value |-> v, resolvable |-> r, wellFormed |-> w]

Logs ==
    { mkLog("NFT", "Transfer721", 7, TRUE, TRUE),
      mkLog("nft", "Transfer1155", 2, TRUE, TRUE),
      mkLog("weth", "Transfer", 0, TRUE, TRUE),
      mkLog("usdc", "Transfer", 0, TRUE, TRUE),
      mkLog("LooksRare", "Sale", 100, TRUE, TRUE),
      mkLog("looksrare", "Sale", 100, TRUE, FALSE),
      mkLog("looksrare", "Transfer", 0, TRUE, TRUE),
      mkLog("x2y2", "Sale", 10, TRUE, TRUE),
      mkLog("seaport", "Sale", 100, TRUE, TRUE),
      mkLog("seaport", "Sale", 100, FALSE, TRUE),
      mkLog("nfttrader", "Sale", 7, TRUE, TRUE),
      mkLog("nfttrader", "Sale", 7, FALSE, TRUE),
      mkLog("hybrid", "Sale", 100, TRUE, TRUE),
      mkLog("gem", "Sale", 100, TRUE, TRUE),
      mkLog("other", "Sale", 100, TRUE, TRUE) }

\* receipt.to of the receipts of the model.
Recipients == {"LooksRare", "nfttrader", "gem", "weth", "other"}

RECURSIVE SeqsUpTo(_, _)
SeqsUpTo(S, n) ==
    IF n = 0 THEN {<<>>}
    ELSE LET shorter == SeqsUpTo(S, n - 1)
         IN  shorter \cup { Append(s, x) : s \in {t \in shorter : Len(t) = n - 1}, x \in S }

\* ------------------------------------------------------------- arithmetic
RECURSIVE Pow10(_)
Pow10(n) == IF n = 0 THEN 1 ELSE 10 * Pow10(n - 1)

\* The raw integer taken as a number of whole units: no division by
\* 10^decimals.
formatUnitsUnscaled(raw, decimals) == raw * Pow10(MaxDecimals)

\* The raw integer always divided by 10^MaxDecimals, whatever the currency
\* (formatEther for formatUnits).
formatUnitsFixedDecimals(raw, decimals) == raw

\* Number(ethers.utils.formatUnits(raw, decimals)), in units of 10^-MaxDecimals.
formatUnits(raw, decimals) == raw * Pow10(MaxDecimals - decimals)

\* utils/api.js formatPrice: the display form of a price, integer part and
\* fraction.
formatPrice(price) == <<price \div Pow10(MaxDecimals), price % Pow10(MaxDecimals)>>

\* _.sum(tx.tokens)
RECURSIVE sum(_)
sum(s) == IF s = <<>> THEN 0 ELSE Head(s) + sum(Tail(s))


\* ------------------------------------------------------------------- state
VARIABLES
    receipt,    \* the receipt of getTransactionReceipt: [to, from, logs]
    pc,         \* position of parseTransaction
    i,          \* index in receipt.logs of the log being processed
    tx,         \* the summary record
    created,    \* whether initializeTransactionData has built tx
    result,     \* "pending", "null" (return null) or "summary" (return tx)
    trace,      \* the per-log steps taken so far, <<step, log index>>
    lookups,    \* the external lookups of lines 98-108 issued so far, <<name,
                \* argument, status>>, status "pending" until the await resumes
    parseResult \* const parseResult of line 77 while line 79 has not run

vars == <<receipt, pc, i, tx, created, result, trace, lookups, parseResult>>

\* const recipient = receipt.to.toLowerCase()
recipient == toLowerCase(receipt.to)

\* const log, const logAddress, const logMarket of the loop body
log == receipt.logs[i]
logAddress == toLowerCase(log.address)
logMarket == getMarket(logAddress)

\* The record before initializeTransactionData has run.
noTx ==
    [market |-> noMarket, currency |-> defaultCurrency, isSwap |-> FALSE,
     isSweep |-> FALSE, tokens |-> <<>>, tokenType |-> "", tokenId |-> "",
     marketList |-> <<>>, prices |-> <<>>, totalPrice |-> 0,
     swap |-> [monitorTokenId |-> ""], quantity |-> 0,
     to |-> <<>>, from |-> <<>>, tokenData |-> <<>>, tokenName |-> <<>>,
     sweeperAddr |-> "", sweeper |-> <<>>, usdPrice |-> <<>>, ethUsdValue |-> <<>>,
     transactionHash |-> ""]

\* config/initialize.js initializeTransactionData(contractData, recipient,
\* contractAddress): an empty record whose market and mode flags come from
\* the recipient's market descriptor.
initializeTransactionData(rcp) ==
    [noTx EXCEPT !.market = getMarket(rcp),
                 !.isSwap = getMarket(rcp).isSwapMarket,
                 !.isSweep = (getMarket(rcp).name = "Gem")]

\* ---------------------------------------------------------------- delegates
\* The token id in the form the record keeps it.
tokenIdOf(v) == ToString(v)

\* controllers/parseSaleToken.js: a transfer log of the monitored collection
\* appends to tokens and sets tokenType; any other log is a no-op.
parseSaleToken(t, l, addr) ==
    IF addr = contractAddress /\ l.topic = "Transfer721"
    THEN [t EXCEPT !.tokenType = "ERC721", !.tokenId = tokenIdOf(l.value),
                   !.tokens = Append(@, l.value)]
    ELSE IF addr = contractAddress /\ l.topic = "Transfer1155"
    THEN [t EXCEPT !.tokenType = "ERC1155", !.tokenId = tokenIdOf(l.value),
                   !.tokens = Append(@, l.value)]
    ELSE t

\* controllers/parseSwapToken.js: the swap-path extractor.
parseSwapToken(t, l, addr) ==
    IF addr = contractAddress /\ l.topic = "Transfer721"
    THEN [t EXCEPT !.tokenType = "ERC721", !.tokens = Append(@, l.value)]
    ELSE IF addr = contractAddress /\ l.topic = "Transfer1155"
    THEN [t EXCEPT !.tokenType = "ERC1155", !.tokens = Append(@, l.value)]
    ELSE t

\* web3.eth.abi.decodeLog(schema, log.data, []): an object with the fields
\* the schema names.
decodeLog(schema, l) == [fields |-> schema, value |-> l.value, resolvable |-> l.resolvable]

\* Reading a field of the decoded payload; -1 stands for undefined.
fieldOf(decoded, f) == IF f \in decoded.fields THEN decoded.value ELSE -1

\* isSeaport that yields to the swap shape: a payload with both fields is
\* not taken as a listing.
isSeaportUnlessSwap(decoded) == "offer" \in decoded.fields /\ "_swapId" \notin decoded.fields

isSeaport(decoded) == "offer" \in decoded.fields
isNftTrader(decoded) == "_swapId" \in decoded.fields

\* controllers/parseSeaport.js: null when the payload carries no executed
\* consideration for the monitored token; otherwise the settlement price is
\* added to totalPrice, marketList and prices.
parseSeaport(t, market, decoded) ==
    IF ~decoded.resolvable
    THEN [result |-> "null", tx |-> t]
    ELSE LET price == formatUnits(decoded.value, t.currency.decimals)
         IN  [result |-> "price",
              tx |-> [t EXCEPT !.totalPrice = @ + price,
                               !.marketList = Append(@, market),
                               !.prices = Append(@, formatPrice(price))]]

\* controllers/parseNftTrader.js: null when no monitored token id can be
\* resolved; otherwise records it in tx.swap.
parseNftTrader(t, l, addr, decoded) ==
    IF ~decoded.resolvable
    THEN [result |-> "null", tx |-> t]
    ELSE [result |-> "ok",
          tx |-> [t EXCEPT !.swap = [monitorTokenId |-> tokenIdOf(decoded.value)]]]

\* -------------------------------------------------------------------- Init
Init ==
    /\ receipt \in [to : Recipients, from : {"buyer"}, logs : SeqsUpTo(Logs, MaxLogs)]
    /\ pc = "start"
    /\ i = 0
    /\ tx = noTx
    /\ created = FALSE
    /\ result = "pending"
    /\ trace = <<>>
    /\ lookups = <<>>
    /\ parseResult = "none"

\* ----------------------------------------------------------------- actions
\* GetReceipt without the check of line 40.
GetReceiptAnyRecipient ==
    /\ pc = "start"
    /\ tx' = initializeTransactionData(recipient)
    /\ created' = TRUE
    /\ i' = 1
    /\ pc' = IF Len(receipt.logs) = 0 THEN "finalize" ELSE "currency"
    /\ UNCHANGED <<receipt, result, trace, lookups, parseResult>>

\* Lines 37-44: fetch the receipt, reject an unknown recipient, build tx.
GetReceipt ==
    /\ pc = "start"
    /\ IF ~inMarkets(recipient)
       THEN /\ result' = "null"
            /\ pc' = "done"
            /\ UNCHANGED <<i, tx, created>>
       ELSE /\ tx' = initializeTransactionData(recipient)
            /\ created' = TRUE
            /\ i' = 1
            /\ pc' = IF Len(receipt.logs) = 0 THEN "finalize" ELSE "currency"
            /\ UNCHANGED result
    /\ UNCHANGED <<receipt, trace, lookups, parseResult>>

\* CurrencyDetection without the `!tx.isSweep` conjunct of line 50.
CurrencyDetectionIgnoresSweep ==
    /\ pc = "currency"
    /\ tx' = IF inCurrencies(logAddress)
             THEN [tx EXCEPT !.currency = currencies[logAddress]]
             ELSE tx
    /\ trace' = Append(trace, <<"currency", i>>)
    /\ pc' = "extract"
    /\ UNCHANGED <<receipt, i, created, result, lookups, parseResult>>

\* Lines 46-52: take the next log; currency detection.
CurrencyDetection ==
    /\ pc = "currency"
    /\ tx' = IF inCurrencies(logAddress) /\ ~tx.isSweep
             THEN [tx EXCEPT !.currency = currencies[logAddress]]
             ELSE tx
    /\ trace' = Append(trace, <<"currency", i>>)
    /\ pc' = "extract"
    /\ UNCHANGED <<receipt, i, created, result, lookups, parseResult>>

\* Lines 60-61.
isSale == logAddress = recipient /\ log.topic \in saleEventTypes
isAggregatorSale == inMarkets(logAddress) /\ log.topic \in saleEventTypes

\* TokenExtraction moved behind the sale-event test: a sale log is not
\* handed to the extractor.
TokenExtractionUnlessSale ==
    /\ pc = "extract"
    /\ IF isSale \/ isAggregatorSale
       THEN UNCHANGED <<tx, trace>>
       ELSE IF tx.isSwap
       THEN /\ tx' = parseSwapToken(tx, log, logAddress)
            /\ trace' = Append(trace, <<"parseSwapToken", i>>)
       ELSE /\ tx' = parseSaleToken(tx, log, logAddress)
            /\ trace' = Append(trace, <<"parseSaleToken", i>>)
    /\ pc' = "sale"
    /\ UNCHANGED <<receipt, i, created, result, lookups, parseResult>>

\* Lines 54-58: token-movement extraction. The call is not awaited; the
\* extractor is taken to have applied its updates when it returns, as the
\* scan has no suspension point there (spec 5).
TokenExtraction ==
    /\ pc = "extract"
    /\ IF tx.isSwap
       THEN /\ tx' = parseSwapToken(tx, log, logAddress)
            /\ trace' = Append(trace, <<"parseSwapToken", i>>)
       ELSE /\ tx' = parseSaleToken(tx, log, logAddress)
            /\ trace' = Append(trace, <<"parseSaleToken", i>>)
    /\ pc' = "sale"
    /\ UNCHANGED <<receipt, i, created, result, lookups, parseResult>>

\* Lines 64-66 without the case distinction: always the recipient's schema.
marketLogDecoderOfRecipient == tx.market.logDecoder

\* Lines 64-66.
marketLogDecoder ==
    IF isSale THEN tx.market.logDecoder ELSE markets[logAddress].logDecoder

\* Line 70.
decodedLogData == decodeLog(marketLogDecoder, log)

\* The end of one iteration of the for loop: the next log, or line 92.
Continue ==
    /\ i' = i + 1
    /\ pc' = IF i < Len(receipt.logs) THEN "currency" ELSE "finalize"

\* `return null` inside the loop.
Abort ==
    /\ result' = "null"
    /\ pc' = "done"
    /\ UNCHANGED i

\* An exception leaving parseTransaction.
Throw ==
    /\ result' = "throw"
    /\ pc' = "done"
    /\ UNCHANGED i

\* Line 63, condition false: the log is no sale event.
NotSaleEvent ==
    /\ pc = "sale"
    /\ ~(isSale \/ isAggregatorSale)
    /\ trace' = Append(trace, <<"notSale", i>>)
    /\ Continue
    /\ UNCHANGED <<receipt, tx, created, result, lookups, parseResult>>

\* MissingDecoder that skips the log instead of returning null.
MissingDecoderSkips ==
    /\ pc = "sale"
    /\ isSale \/ isAggregatorSale
    /\ marketLogDecoder = undefined
    /\ trace' = Append(trace, <<"noDecoder", i>>)
    /\ Continue
    /\ UNCHANGED <<receipt, tx, created, result, lookups, parseResult>>

\* Line 68: no decode schema.
MissingDecoder ==
    /\ pc = "sale"
    /\ isSale \/ isAggregatorSale
    /\ marketLogDecoder = undefined
    /\ trace' = Append(trace, <<"noDecoder", i>>)
    /\ Abort
    /\ UNCHANGED <<receipt, tx, created, lookups, parseResult>>

\* Line 70: decodeLog throws on data that does not match the schema.
DecodeFails ==
    /\ pc = "sale"
    /\ isSale \/ isAggregatorSale
    /\ marketLogDecoder # undefined
    /\ ~log.wellFormed
    /\ trace' = Append(trace, <<"decodeLog", i>>)
    /\ Throw
    /\ UNCHANGED <<receipt, tx, created, lookups, parseResult>>

\* SeaportLog that returns null where line 75 continues.
SeaportLogAbortsOnNull ==
    /\ pc = "sale"
    /\ isSale \/ isAggregatorSale
    /\ marketLogDecoder # undefined
    /\ log.wellFormed
    /\ isSeaport(decodedLogData)
    /\ LET r == parseSeaport(tx, logMarket, decodedLogData)
       IN  /\ tx' = r.tx
           /\ IF r.result = "null"
              THEN Abort
              ELSE Continue /\ UNCHANGED result
    /\ trace' = Append(trace, <<"parseSeaport", i>>)
    /\ UNCHANGED <<receipt, created, lookups, parseResult>>

\* Lines 72-75: listing/offer payload.
SeaportLog ==
    /\ pc = "sale"
    /\ isSale \/ isAggregatorSale
    /\ marketLogDecoder # undefined
    /\ log.wellFormed
    /\ isSeaport(decodedLogData)
    /\ LET r == parseSeaport(tx, logMarket, decodedLogData)
       IN  tx' = r.tx
    /\ trace' = Append(trace, <<"parseSeaport", i>>)
    /\ Continue
    /\ UNCHANGED <<receipt, created, result, lookups, parseResult>>

\* Line 77, the call, when the decoder needs no lookup: parseNftTrader runs
\* to its end, and the await hands control back to the event loop with the
\* decoder's update in tx and line 79 still to run.
NftTraderCall ==
    /\ pc = "sale"
    /\ isSale \/ isAggregatorSale
    /\ marketLogDecoder # undefined
    /\ log.wellFormed
    /\ ~isSeaport(decodedLogData)
    /\ isNftTrader(decodedLogData)
    /\ LET r == parseNftTrader(tx, log, logAddress, decodedLogData)
       IN  /\ tx' = r.tx
           /\ parseResult' = r.result
    /\ trace' = Append(trace, <<"parseNftTrader", i>>)
    /\ pc' = "awaitNftTrader"
    /\ UNCHANGED <<receipt, i, created, result, lookups>>

\* Line 77, the call, when the decoder needs its additional lookup: it is
\* suspended on the lookup and has not touched tx.
NftTraderCallSuspends ==
    /\ pc = "sale"
    /\ isSale \/ isAggregatorSale
    /\ marketLogDecoder # undefined
    /\ log.wellFormed
    /\ ~isSeaport(decodedLogData)
    /\ isNftTrader(decodedLogData)
    /\ trace' = Append(trace, <<"parseNftTrader", i>>)
    /\ pc' = "nftTraderLookup"
    /\ UNCHANGED <<receipt, i, tx, created, result, lookups, parseResult>>

\* The decoder's lookup resolves: the decoder runs to its end.
NftTraderLookupDone ==
    /\ pc = "nftTraderLookup"
    /\ LET r == parseNftTrader(tx, log, logAddress, decodeLog(marketLogDecoder, log))
       IN  /\ tx' = r.tx
           /\ parseResult' = r.result
    /\ pc' = "awaitNftTrader"
    /\ UNCHANGED <<receipt, i, created, result, trace, lookups>>

\* NftTraderResume that continues where line 79 returns null.
NftTraderResumeSkipsFailure ==
    /\ pc = "awaitNftTrader"
    /\ Continue
    /\ parseResult' = "none"
    /\ UNCHANGED <<receipt, tx, created, result, trace, lookups>>

\* Lines 77-79: the await resumes with the decoder's result.
NftTraderResume ==
    /\ pc = "awaitNftTrader"
    /\ IF parseResult = "null"
       THEN Abort
       ELSE Continue /\ UNCHANGED result
    /\ parseResult' = "none"
    /\ UNCHANGED <<receipt, tx, created, trace, lookups>>

\* The pending-token check with < for the equality of line 80.
pendingTokenAtLeastOne(t) == Len(t.marketList) < Len(t.tokens)

\* Line 80: the pending-token check.
pendingToken(t) == Len(t.marketList) + 1 = Len(t.tokens)

\* Lines 81-82: the price field of a generic payload.
decodedPrice ==
    IF logMarket.name = "X2Y2" THEN fieldOf(decodedLogData, "amount")
                               ELSE fieldOf(decodedLogData, "price")

\* Lines 80-88: generic sale-price payload with a pending token.
GenericSale ==
    /\ pc = "sale"
    /\ isSale \/ isAggregatorSale
    /\ marketLogDecoder # undefined
    /\ log.wellFormed
    /\ ~isSeaport(decodedLogData)
    /\ ~isNftTrader(decodedLogData)
    /\ pendingToken(tx)
    /\ IF decodedPrice = -1
       THEN Throw /\ UNCHANGED tx
       ELSE LET price == formatUnits(decodedPrice, tx.currency.decimals)
            IN  /\ tx' = [tx EXCEPT !.totalPrice = @ + price,
                                    !.marketList = Append(@, logMarket),
                                    !.prices = Append(@, formatPrice(price))]
                /\ Continue
                /\ UNCHANGED result
    /\ trace' = Append(trace, <<"genericSale", i>>)
    /\ UNCHANGED <<receipt, created, lookups, parseResult>>

\* GenericIgnored that returns null instead of going on.
GenericIgnoredAborts ==
    /\ pc = "sale"
    /\ isSale \/ isAggregatorSale
    /\ marketLogDecoder # undefined
    /\ log.wellFormed
    /\ ~isSeaport(decodedLogData)
    /\ ~isNftTrader(decodedLogData)
    /\ ~pendingToken(tx)
    /\ trace' = Append(trace, <<"genericIgnored", i>>)
    /\ Abort
    /\ UNCHANGED <<receipt, tx, created, lookups, parseResult>>

\* Line 80, condition false: the generic payload is ignored.
GenericIgnored ==
    /\ pc = "sale"
    /\ isSale \/ isAggregatorSale
    /\ marketLogDecoder # undefined
    /\ log.wellFormed
    /\ ~isSeaport(decodedLogData)
    /\ ~isNftTrader(decodedLogData)
    /\ ~pendingToken(tx)
    /\ trace' = Append(trace, <<"genericIgnored", i>>)
    /\ Continue
    /\ UNCHANGED <<receipt, tx, created, result, lookups, parseResult>>

\* Line 92 without the ERC721 case distinction's sum branch.
quantityOfLength(t) == Len(t.tokens)

\* Line 92.
quantityOf(t) == IF t.tokenType = "ERC721" THEN Len(t.tokens) ELSE sum(t.tokens)

\* Line 94 without its swap disjunct: the quantity test applied to every
\* transaction.
noTokensFoundQuantityOnly(t) == t.quantity = 0

\* Line 94.
noTokensFound(t) ==
    \/ ~t.isSwap /\ t.quantity = 0
    \/ t.isSwap /\ t.swap.monitorTokenId = ""

\* Finalize with the stamping of lines 104 and 111 moved above the check of
\* line 94.
FinalizeStampsFirst ==
    /\ pc = "finalize"
    /\ LET t == [tx EXCEPT !.quantity = quantityOf(tx),
                           !.sweeperAddr = receipt.from,
                           !.transactionHash = "hash"]
       IN  /\ tx' = t
           /\ IF noTokensFound(t)
              THEN result' = "null" /\ pc' = "done"
              ELSE result' = result /\ pc' = "enrich"
    /\ UNCHANGED <<receipt, i, created, trace, lookups, parseResult>>

\* Lines 92-97: quantity and the completeness check.
Finalize ==
    /\ pc = "finalize"
    /\ LET t == [tx EXCEPT !.quantity = quantityOf(tx)]
       IN  /\ tx' = t
           /\ IF noTokensFound(t)
              THEN result' = "null" /\ pc' = "done"
              ELSE result' = result /\ pc' = "enrich"
    /\ UNCHANGED <<receipt, i, created, trace, lookups, parseResult>>

\* utils/api.js: the external lookups, by the values they may resolve to.
\* <<>> stands for null and for a field not set, <<"">> for the empty string.
getReadableName(addr) == <<"name", addr>>
getTokenData(contract, tokenType, tokenId) ==
    { <<"data", contract, tokenType, tokenId, name>> : name \in {"", "Name"} }
getEthUsdPrice(amount) == { <<"usd", amount>>, <<"">> }

\* JavaScript truthiness of a lookup's value.
truthy(v) == v # <<>> /\ v # <<"">>

\* A lookup is called and awaited; the await of the last call resumes.
issue(L, name, arg) == Append(L, <<name, arg, "pending">>)
settle(L) == [L EXCEPT ![Len(L)] = <<@[1], @[2], "awaited">>]

\* The arguments of getTokenData, lines 100-102.
tokenIdArg(t) == IF t.swap.monitorTokenId # "" THEN t.swap.monitorTokenId ELSE t.tokenId
tokenTypeArg(t) == IF t.tokenType = "" THEN "UNKNOWN" ELSE t.tokenType

\* Line 107 without its `!tx.isSwap` conjunct.
needsUsdPriceAnyMode(t) == t.currency.name = "ETH" \/ t.currency.name = "WETH"

\* Line 107: whether the fiat rate is looked up.
needsUsdPrice(t) == ~t.isSwap /\ (t.currency.name = "ETH" \/ t.currency.name = "WETH")

\* Lines 110-113 on record t: ethUsdValue, transactionHash, return tx.
Return(t, L) ==
    /\ tx' = [t EXCEPT !.ethUsdValue = IF truthy(t.usdPrice) THEN <<"($ )", t.usdPrice>>
                                                             ELSE <<"">>,
                       !.transactionHash = "hash"]
    /\ lookups' = L
    /\ result' = "summary"
    /\ pc' = "done"

\* Lines 106-109 on record t: call getEthUsdPrice and suspend, or null.
FromLine106(t, L) ==
    IF needsUsdPrice(t)
    THEN /\ tx' = t
         /\ lookups' = issue(L, "getEthUsdPrice", t.totalPrice)
         /\ pc' = "awaitUsdPrice"
         /\ UNCHANGED result
    ELSE Return([t EXCEPT !.usdPrice = <<>>], L)

\* Lines 98-102 up to the first await: getReadableName(toAddr) for a sale;
\* for a swap to and from are '' and getTokenData is the first call.
EnrichStart ==
    /\ pc = "enrich"
    /\ IF ~tx.isSwap
       THEN /\ lookups' = issue(lookups, "getReadableName", "toAddr")
            /\ pc' = "awaitTo"
            /\ UNCHANGED tx
       ELSE /\ tx' = [tx EXCEPT !.to = <<"">>, !.from = <<"">>]
            /\ lookups' = issue(lookups, "getTokenData", tokenIdArg(tx))
            /\ pc' = "awaitTokenData"
    /\ UNCHANGED <<receipt, i, created, result, trace, parseResult>>

\* Lines 98-99: the await of line 98 resumes; getReadableName(fromAddr).
ResumeTo ==
    /\ pc = "awaitTo"
    /\ tx' = [tx EXCEPT !.to = getReadableName("toAddr")]
    /\ lookups' = issue(settle(lookups), "getReadableName", "fromAddr")
    /\ pc' = "awaitFrom"
    /\ UNCHANGED <<receipt, i, created, result, trace, parseResult>>

\* Lines 99-102: the await of line 99 resumes; getTokenData.
ResumeFrom ==
    /\ pc = "awaitFrom"
    /\ tx' = [tx EXCEPT !.from = getReadableName("fromAddr")]
    /\ lookups' = issue(settle(lookups), "getTokenData", tokenIdArg(tx))
    /\ pc' = "awaitTokenData"
    /\ UNCHANGED <<receipt, i, created, result, trace, parseResult>>

\* Lines 100-108: the await of getTokenData resumes; tokenName with the
\* fallback of line 103, sweeperAddr, then the sweeper's name for a sweep.
ResumeTokenData ==
    /\ pc = "awaitTokenData"
    /\ \E data \in getTokenData(contractAddress, tokenTypeArg(tx), tokenIdArg(tx)) :
          LET t == [tx EXCEPT
                       !.tokenData = data,
                       !.tokenName = IF data[5] # "" THEN <<"name", data[5]>>
                                                    ELSE <<"symbol #", tx.tokenId>>,
                       !.sweeperAddr = receipt.from]
          IN  IF tx.isSweep
              THEN /\ tx' = t
                   /\ lookups' = issue(settle(lookups), "getReadableName", receipt.from)
                   /\ pc' = "awaitSweeper"
                   /\ UNCHANGED result
              ELSE FromLine106([t EXCEPT !.sweeper = <<"">>], settle(lookups))
    /\ UNCHANGED <<receipt, i, created, trace, parseResult>>

\* Lines 105-108: the await of line 105 resumes.
ResumeSweeper ==
    /\ pc = "awaitSweeper"
    /\ FromLine106([tx EXCEPT !.sweeper = getReadableName(receipt.from)], settle(lookups))
    /\ UNCHANGED <<receipt, i, created, trace, parseResult>>

\* Lines 106-113: the await of line 108 resumes.
ResumeUsdPrice ==
    /\ pc = "awaitUsdPrice"
    /\ \E rate \in getEthUsdPrice(tx.totalPrice) :
          Return([tx EXCEPT !.usdPrice = rate], settle(lookups))
    /\ UNCHANGED <<receipt, i, created, trace, parseResult>>

Next ==
    \/ GetReceipt
    \/ CurrencyDetection
    \/ TokenExtraction
    \/ NotSaleEvent
    \/ MissingDecoder
    \/ DecodeFails
    \/ SeaportLog
    \/ NftTraderCall
    \/ NftTraderCallSuspends
    \/ NftTraderLookupDone
    \/ NftTraderResume
    \/ GenericSale
    \/ GenericIgnored
    \/ Finalize
    \/ EnrichStart
    \/ ResumeTo
    \/ ResumeFrom
    \/ ResumeTokenData
    \/ ResumeSweeper
    \/ ResumeUsdPrice

Spec == Init /\ [][Next]_vars

\* ------------------------------------------------------------- properties
\* What the receipt alone says of its k-th log.
LogAddr(k) == toLowerCase(receipt.logs[k].address)

SaleDetected(k) ==
    /\ receipt.logs[k].topic \in saleEventTypes
    /\ LogAddr(k) = recipient \/ LogAddr(k) \in DOMAIN markets

SchemaOf(k) ==
    IF LogAddr(k) = recipient THEN markets[recipient].logDecoder
                              ELSE markets[LogAddr(k)].logDecoder

Decodable(k) ==
    SaleDetected(k) /\ SchemaOf(k) # undefined /\ receipt.logs[k].wellFormed

OfferShaped(k) == Decodable(k) /\ "offer" \in SchemaOf(k)
SwapShaped(k) == Decodable(k) /\ "offer" \notin SchemaOf(k) /\ "_swapId" \in SchemaOf(k)
GenericShaped(k) ==
    Decodable(k) /\ "offer" \notin SchemaOf(k) /\ "_swapId" \notin SchemaOf(k)

\* The steps recorded for log k, and whether the scan has left log k.
StepsOf(k) == { trace[j][1] : j \in { n \in DOMAIN trace : trace[n][2] = k } }
Left(k) == created /\ (i > k \/ (i = k /\ pc = "done"))
ScanCompleted == created /\ i = Len(receipt.logs) + 1

\* C1: at every point of the scan prices.length == marketList.length and
\* marketList.length <= tokens.length.
C1_LengthsInvariant ==
    created =>
        /\ Len(tx.prices) = Len(tx.marketList)
        /\ Len(tx.marketList) <= Len(tx.tokens)

\* C2: a generic sale-price log changes prices, marketList or totalPrice only
\* when marketList.length + 1 == tokens.length held as it was processed, and
\* the second of two consecutive generic sale logs adds nothing.
C2_GenericNeedsPendingToken ==
    [][ (pc = "sale" /\ GenericShaped(i)) =>
          /\ (<<tx'.prices, tx'.marketList, tx'.totalPrice>>
                  # <<tx.prices, tx.marketList, tx.totalPrice>>)
               => (Len(tx.marketList) + 1 = Len(tx.tokens)
                   /\ Len(tx'.marketList) = Len(tx.marketList) + 1
                   /\ Len(tx'.prices) = Len(tx.prices) + 1)
          /\ (i > 1 /\ GenericShaped(i - 1))
               => <<tx'.prices, tx'.marketList, tx'.totalPrice>>
                      = <<tx.prices, tx.marketList, tx.totalPrice>> ]_vars

\* C2 witness: a generic sale log was accepted and the generic sale log right
\* after it was rejected.
C2_Witness ==
    \E k \in 1..Len(receipt.logs) :
        /\ created
        /\ k > 1
        /\ GenericShaped(k - 1) /\ GenericShaped(k)
        /\ "genericSale" \in StepsOf(k - 1)
        /\ "genericIgnored" \in StepsOf(k)

\* C3: an unknown recipient ends the parse with null, no summary record and
\* no log processed.
C3_UnknownRecipient ==
    (toLowerCase(receipt.to) \notin DOMAIN markets /\ pc # "start") =>
        /\ pc = "done"
        /\ result = "null"
        /\ ~created
        /\ tx = noTx
        /\ trace = <<>>
        /\ lookups = <<>>

\* C3 witness: an unknown recipient whose receipt holds a sale log of a known
\* market and a known currency's log.
C3_Witness ==
    /\ toLowerCase(receipt.to) \notin DOMAIN markets
    /\ pc = "done"
    /\ \E k \in 1..Len(receipt.logs) : LogAddr(k) \in DOMAIN markets
    /\ \E k \in 1..Len(receipt.logs) : LogAddr(k) \in DOMAIN currencies

\* C4: once the scan has handled a detected sale log whose schema is
\* undefined, the parse has returned null and no later log is processed.
C4_MissingSchemaAborts ==
    \A k \in 1..Len(receipt.logs) :
        (Left(k) /\ SaleDetected(k) /\ SchemaOf(k) = undefined) =>
            /\ pc = "done"
            /\ result = "null"
            /\ i = k
            /\ \A j \in DOMAIN trace : trace[j][2] <= k
            /\ lookups = <<>>

\* C4 witness: the abort happened after a token was recorded and with logs
\* still to come.
C4_Witness ==
    \E k \in 1..Len(receipt.logs) :
        /\ Left(k) /\ SaleDetected(k) /\ SchemaOf(k) = undefined
        /\ k < Len(receipt.logs)
        /\ Len(tx.tokens) > 0

\* C5: once the scan has handled a swap-shaped sale log on which
\* parseNftTrader returns null, the parse has returned null and no later log
\* is processed.
C5_SwapFailureAborts ==
    \A k \in 1..Len(receipt.logs) :
        (Left(k) /\ SwapShaped(k) /\ ~receipt.logs[k].resolvable) =>
            /\ pc = "done"
            /\ result = "null"
            /\ i = k
            /\ \A j \in DOMAIN trace : trace[j][2] <= k
            /\ lookups = <<>>

\* C5 witness: the swap decoder failed with logs still to come.
C5_Witness ==
    \E k \in 1..Len(receipt.logs) :
        /\ Left(k) /\ SwapShaped(k) /\ ~receipt.logs[k].resolvable
        /\ "parseNftTrader" \in StepsOf(k)
        /\ k < Len(receipt.logs)

\* C6: an offer-shaped sale log on which parseSeaport returns null leaves
\* totalPrice, marketList and prices as they were, does not end the parse,
\* and the scan goes on to the next log (or to finalization after the last).
C6_ListingWithoutPriceSkips ==
    [][ (pc = "sale" /\ OfferShaped(i) /\ ~receipt.logs[i].resolvable) =>
          /\ tx'.totalPrice = tx.totalPrice
          /\ tx'.marketList = tx.marketList
          /\ tx'.prices = tx.prices
          /\ result' = "pending"
          /\ i' = i + 1
          /\ pc' = IF i < Len(receipt.logs) THEN "currency" ELSE "finalize" ]_vars

\* C6 witness: a log after a listing log without price has been processed.
C6_Witness ==
    \E k \in 1..Len(receipt.logs) :
        /\ created
        /\ k > 1
        /\ OfferShaped(k - 1) /\ ~receipt.logs[k - 1].resolvable
        /\ "parseSeaport" \in StepsOf(k - 1)
        /\ "currency" \in StepsOf(k)

\* C7: after a scan that completed, the parse returns null exactly when the
\* transaction is non-swap with quantity 0 or a swap without monitored token
\* id, and a summary otherwise.
C7_FinalizationCheck ==
    (ScanCompleted /\ pc = "done") =>
        /\ tx.quantity = (IF tx.tokenType = "ERC721" THEN Len(tx.tokens)
                                                     ELSE sum(tx.tokens))
        /\ IF \/ ~tx.isSwap /\ tx.quantity = 0
              \/ tx.isSwap /\ tx.swap.monitorTokenId = ""
           THEN result = "null"
           ELSE result = "summary"

\* C7 witness: a completed swap scan that recorded tokens but resolved no
\* monitored token id.
C7_Witness ==
    /\ ScanCompleted /\ pc = "done"
    /\ tx.isSwap /\ tx.swap.monitorTokenId = "" /\ tx.quantity > 0

\* C8: the currency-detection step of a log sets currency to the log
\* address's currency exactly when that address is a known currency and the
\* summary is no sweep; no other step, and no step of a sweep, changes it.
C8_CurrencyOverwrite ==
    [][ tx'.currency =
          IF pc = "currency" /\ LogAddr(i) \in DOMAIN currencies /\ ~tx.isSweep
          THEN currencies[LogAddr(i)]
          ELSE tx.currency ]_vars

\* C8 witness: a sweep has scanned a known currency's log.
C8_Witness ==
    /\ tx.isSweep
    /\ \E k \in 1..Len(receipt.logs) :
           LogAddr(k) \in DOMAIN currencies /\ "currency" \in StepsOf(k)

\* C9: the logs are processed in receipt order, each at most once and each
\* exactly once when no abort occurs; every processed log goes through the
\* extractor (parseSwapToken when isSwap, parseSaleToken otherwise) before
\* its sale-event handling, whether or not it is a sale event.
C9_EachLogOnceInOrder ==
    /\ \A j \in DOMAIN trace :
          /\ trace[j][2] = ((j - 1) \div 3) + 1
          /\ trace[j][2] <= Len(receipt.logs)
          /\ CASE j % 3 = 1 -> trace[j][1] = "currency"
               [] j % 3 = 2 -> trace[j][1] =
                                   (IF tx.isSwap THEN "parseSwapToken" ELSE "parseSaleToken")
               [] OTHER     -> trace[j][1] \in
                                   {"notSale", "noDecoder", "decodeLog", "parseSeaport",
                                    "parseNftTrader", "genericSale", "genericIgnored"}
    /\ (created /\ pc = "sale") => Len(trace) = 3 * i - 1
    /\ ScanCompleted => Len(trace) = 3 * Len(receipt.logs)

\* C9 witness: a completed scan of three logs of which a sale event and a
\* non-sale log.
C9_Witness ==
    /\ ScanCompleted
    /\ Len(receipt.logs) = 3
    /\ \E k \in 1..3 : SaleDetected(k)
    /\ \E k \in 1..3 : ~SaleDetected(k)

\* C11: no exception escapes parseTransaction: the parse ends with null or
\* with a summary, also when decodeLog fails on a detected sale log.
C11_NoExceptionEscapes == result # "throw"

\* The post-scan fields of the record still have their initial values.
NotEnriched ==
    /\ tx.to = <<>> /\ tx.from = <<>> /\ tx.tokenData = <<>> /\ tx.tokenName = <<>>
    /\ tx.sweeper = <<>> /\ tx.usdPrice = <<>> /\ tx.ethUsdValue = <<>>
    /\ tx.sweeperAddr = "" /\ tx.transactionHash = ""

\* C12: lookups are invoked and the post-scan fields stamped only after a
\* scan that processed every log and passed the finalization check, the
\* parse then being suspended on a lookup or returned with a summary; a
\* parse that does not return a summary invokes no lookup; when a summary is
\* returned every lookup issued has resolved and the fields are stamped.
C12_EnrichmentOnlyAfterScan ==
    /\ (lookups # <<>> \/ ~NotEnriched) =>
          /\ ScanCompleted
          /\ Len(trace) = 3 * Len(receipt.logs)
          /\ pc \notin {"finalize", "enrich"}
          /\ result \in {"pending", "summary"}
          /\ ~(\/ ~tx.isSwap /\ tx.quantity = 0
               \/ tx.isSwap /\ tx.swap.monitorTokenId = "")
    /\ result \in {"null", "throw"} => (lookups = <<>> /\ NotEnriched)
    /\ result = "summary" =>
          /\ lookups # <<>>
          /\ \A j \in DOMAIN lookups : lookups[j][3] = "awaited"
          /\ tx.to # <<>> /\ tx.from # <<>> /\ tx.sweeper # <<>>
          /\ tx.tokenData # <<>> /\ tx.tokenName # <<>>
          /\ tx.ethUsdValue # <<>>
          /\ tx.transactionHash = "hash"
          /\ tx.sweeperAddr = receipt.from

\* C12 witness: a scan of three logs that recorded tokens ended in null at
\* the finalization check, without any lookup.
C12_Witness ==
    /\ ScanCompleted /\ pc = "done" /\ result = "null"
    /\ Len(tx.tokens) > 0
    /\ Len(receipt.logs) = 3
    /\ lookups = <<>>

\* The receipt of the scenario of C13: a known non-swap, non-sweep recipient
\* with a decode schema, one ERC721 transfer of the monitored collection,
\* then one generic sale log whose raw price is 10^d, d the decimals of the
\* currency in effect.
ScenarioOneSale ==
    /\ toLowerCase(receipt.to) \in DOMAIN markets
    /\ ~markets[toLowerCase(receipt.to)].isSwapMarket
    /\ markets[toLowerCase(receipt.to)].name # "Gem"
    /\ markets[toLowerCase(receipt.to)].logDecoder # undefined
    /\ Len(receipt.logs) = 2
    /\ LogAddr(1) = "nft" /\ receipt.logs[1].topic = "Transfer721"
    /\ GenericShaped(2)
    /\ receipt.logs[2].value = Pow10(defaultCurrency.decimals)

\* C13: the scenario yields a summary with quantity 1, totalPrice 1 (one
\* whole unit), one market and one price.
C13_OneTransferOneSale ==
    (ScenarioOneSale /\ pc = "done") =>
        /\ result = "summary"
        /\ tx.quantity = 1
        /\ tx.totalPrice = Pow10(MaxDecimals)
        /\ Len(tx.marketList) = 1
        /\ Len(tx.prices) = 1
        /\ tx.prices[1] = <<1, 0>>

\* C13 witness: the scenario has been parsed to its end.
C13_Witness == ScenarioOneSale /\ pc = "done" /\ result = "summary"

\* C14: after a completed scan quantity is tokens.length for ERC721 and the
\* sum of tokens otherwise.
C14_Quantity ==
    (ScanCompleted /\ pc # "finalize") =>
        IF tx.tokenType = "ERC721"
        THEN tx.quantity = Len(tx.tokens)
        ELSE tx.quantity = sum(tx.tokens)

\* C14 witness: a completed ERC1155 scan whose quantity is not the number of
\* tokens entries.
C14_Witness ==
    /\ ScanCompleted /\ pc = "done"
    /\ tx.tokenType = "ERC1155"
    /\ Len(tx.tokens) = 2
    /\ tx.quantity = 4

\* The getEthUsdPrice calls made so far.
UsdCalls == { j \in DOMAIN lookups : lookups[j][1] = "getEthUsdPrice" }

\* C15: getEthUsdPrice is called only in a non-swap parse whose currency
\* after the scan is ETH or WETH, there exactly once and with totalPrice;
\* otherwise usdPrice is null and ethUsdValue the empty string.
C15_FiatRateLookup ==
    /\ UsdCalls # {} => /\ ScanCompleted
                        /\ result \in {"pending", "summary"}
                        /\ ~tx.isSwap
                        /\ tx.currency.name \in {"ETH", "WETH"}
                        /\ Cardinality(UsdCalls) = 1
    /\ result = "summary" =>
          IF ~tx.isSwap /\ tx.currency.name \in {"ETH", "WETH"}
          THEN /\ Cardinality(UsdCalls) = 1
               /\ \A j \in UsdCalls : /\ lookups[j][2] = tx.totalPrice
                                       /\ lookups[j][3] = "awaited"
               /\ tx.usdPrice \in {<<"usd", tx.totalPrice>>, <<"">>}
          ELSE /\ UsdCalls = {}
               /\ tx.usdPrice = <<>>
               /\ tx.ethUsdValue = <<"">>

\* C15 witness: a swap in ETH returned a summary without the lookup.
C15_Witness ==
    /\ result = "summary" /\ tx.isSwap /\ tx.currency.name = "ETH"
    /\ UsdCalls = {}

\* C16: a generic sale log that finds marketList.length + 1 != tokens.length
\* changes nothing of the record, signals no abort, and the scan goes on
\* with the next log.
C16_GenericWithoutPendingIgnored ==
    [][ (pc = "sale" /\ GenericShaped(i)
         /\ Len(tx.marketList) + 1 # Len(tx.tokens)) =>
          /\ tx'.prices = tx.prices
          /\ tx'.marketList = tx.marketList
          /\ tx'.totalPrice = tx.totalPrice
          /\ tx'.currency = tx.currency
          /\ result' = "pending"
          /\ i' = i + 1
          /\ pc' = IF i < Len(receipt.logs) THEN "currency" ELSE "finalize" ]_vars

\* C16 witness: a generic sale log was ignored while a price was already
\* credited, and the next log was processed.
C16_Witness ==
    \E k \in 1..Len(receipt.logs) :
        /\ created
        /\ "genericIgnored" \in StepsOf(k)
        /\ "currency" \in StepsOf(k + 1)
        /\ tx.totalPrice > 0

\* The sale-handling step recorded for log k (the third step of a log).
SaleStepOf(k) == trace[3 * k][1]
Handled(k) == created /\ 3 * k \in DOMAIN trace

\* C17: a decoded sale log takes exactly one decode path, tried in the order
\* offer shape, swap shape, generic: offer (with or without _swapId) goes to
\* parseSeaport, _swapId without offer to parseNftTrader, neither to the
\* generic path.
C17_DispatchOrder ==
    \A k \in 1..Len(receipt.logs) :
        (Handled(k) /\ Decodable(k)) =>
            /\ Cardinality(StepsOf(k)) = 3
            /\ CASE "offer" \in SchemaOf(k)   -> SaleStepOf(k) = "parseSeaport"
                 [] "_swapId" \in SchemaOf(k) -> SaleStepOf(k) = "parseNftTrader"
                 [] OTHER -> SaleStepOf(k) \in {"genericSale", "genericIgnored"}

\* C17 witness: a payload with both offer and _swapId was handled.
C17_Witness ==
    \E k \in 1..Len(receipt.logs) :
        /\ Handled(k) /\ Decodable(k)
        /\ "offer" \in SchemaOf(k) /\ "_swapId" \in SchemaOf(k)

\* C18: the schema of a detected sale log is the recipient's market's when
\* the log's address is the recipient, otherwise that of the market at the
\* log's address, and the log is handled as that schema says; a log without
\* sale signature, or at an address that is neither the recipient nor a
\* market, is not decoded.
C18_SchemaSelection ==
    /\ (created /\ pc = "sale" /\ SaleDetected(i)) =>
          /\ marketLogDecoder = SchemaOf(i)
          /\ LogAddr(i) = recipient => marketLogDecoder = tx.market.logDecoder
    /\ \A k \in 1..Len(receipt.logs) :
          Handled(k) =>
             IF ~SaleDetected(k) THEN SaleStepOf(k) = "notSale"
             ELSE IF SchemaOf(k) = undefined THEN SaleStepOf(k) = "noDecoder"
             ELSE IF ~receipt.logs[k].wellFormed THEN SaleStepOf(k) = "decodeLog"
             ELSE IF "offer" \in SchemaOf(k) THEN SaleStepOf(k) = "parseSeaport"
             ELSE IF "_swapId" \in SchemaOf(k) THEN SaleStepOf(k) = "parseNftTrader"
             ELSE SaleStepOf(k) \in {"genericSale", "genericIgnored"}

\* C18 witness: a sale log at the recipient's address and a sale log of
\* another market with another schema were both handled.
C18_Witness ==
    \E k, m \in 1..Len(receipt.logs) :
        /\ Handled(k) /\ Handled(m)
        /\ SaleDetected(k) /\ LogAddr(k) = recipient
        /\ SaleDetected(m) /\ LogAddr(m) # recipient
        /\ SchemaOf(m) # SchemaOf(k)

\* C19: in a scan, a sale log at the recipient's address is at a registered
\* market's address; every log that reached the decode step is; and
\* marketList holds registered market descriptors only.
C19_DecodedLogsAreMarketLogs ==
    created =>
        /\ \A k \in 1..Len(receipt.logs) :
              (LogAddr(k) = toLowerCase(receipt.to)
               /\ receipt.logs[k].topic \in saleEventTypes)
                  => LogAddr(k) \in DOMAIN markets
        /\ \A k \in 1..Len(receipt.logs) :
              (3 * k \in DOMAIN trace /\ trace[3 * k][1] # "notSale")
                  => LogAddr(k) \in DOMAIN markets
        /\ \A j \in DOMAIN tx.marketList :
              \E a \in DOMAIN markets : tx.marketList[j] = markets[a]

\* C19 witness: a generic sale log at the recipient's own address was
\* accepted.
C19_Witness ==
    \E k \in 1..Len(receipt.logs) :
        /\ Handled(k)
        /\ LogAddr(k) = toLowerCase(receipt.to)
        /\ SaleStepOf(k) = "genericSale"
        /\ Len(tx.marketList) = 1

\* The currency in effect once the first n logs have passed currency
\* detection in a non-sweep scan.
RECURSIVE CurrencyAt(_)
CurrencyAt(n) ==
    IF n = 0 THEN defaultCurrency
    ELSE IF LogAddr(n) \in DOMAIN currencies THEN currencies[LogAddr(n)]
         ELSE CurrencyAt(n - 1)

\* C20: in a non-sweep parse an accepted generic sale log adds its raw price
\* divided by 10^decimals of the currency of the latest known-currency log at
\* or before it (the initial currency if none); the currency-detection step
\* of a log changes neither prices nor totalPrice.
C20_PriceScaledByCurrencyInEffect ==
    [][ ~tx.isSweep =>
          /\ pc = "currency" =>
                (tx'.prices = tx.prices /\ tx'.totalPrice = tx.totalPrice)
          /\ (pc = "sale" /\ GenericShaped(i) /\ tx'.marketList # tx.marketList) =>
                LET scaled == receipt.logs[i].value
                                  * Pow10(MaxDecimals - CurrencyAt(i).decimals)
                IN  /\ tx'.totalPrice = tx.totalPrice + scaled
                    /\ tx'.prices = Append(tx.prices,
                                           <<scaled \div Pow10(MaxDecimals),
                                             scaled % Pow10(MaxDecimals)>>) ]_vars

\* C20 witness: a price was accepted under USDC and a later WETH log changed
\* the currency, or a price accepted under the initial currency was followed
\* by a USDC log.
C20_Witness ==
    \E k \in 1..Len(receipt.logs) :
        /\ Handled(k) /\ ~tx.isSweep
        /\ SaleStepOf(k) = "genericSale"
        /\ k < Len(receipt.logs)
        /\ LogAddr(k + 1) \in DOMAIN currencies
        /\ "currency" \in StepsOf(k + 1)
        /\ tx.currency # CurrencyAt(k)
        /\ tx.totalPrice = receipt.logs[k].value
                               * Pow10(MaxDecimals - CurrencyAt(k).decimals)
====
